---- MODULE Spec2Model ----
(***************************************************************************)
(* Incremental SCD Type-2 loaders of the Snowflake ETL repository:         *)
(*   PricesETL.load_prices_incremental     (Prices_incremental_ETL.py)     *)
(*   ProductsETL.load_products_incremental (Products_incremental_etl.py)   *)
(* Every SQL statement / table write the session executes is one atomic    *)
(* step (Snowflake autocommit); the Python code between two statements     *)
(* belongs to the step that follows it.                                    *)
(***************************************************************************)
EXTENDS Integers, Sequences, FiniteSets, TLC

\* ------------------------------------------------------------------------
\* Bounds of the exploration
\* ------------------------------------------------------------------------
\* number of load_*_incremental invocations explored
MaxRuns == 3
\* number of rows of one input file
MaxBatch == 2
\* number of invocations explored when two processes run the program at once
MaxConcRuns == 2

\* SQL NULL of a TIMESTAMP_NTZ column, and Python None of error_message
NULL == -1
None == "None"

\* the processes that can execute a run: process 1 is the program run on its
\* own, one invocation after another (Spec); processes 2 and 3 are two
\* executions of the program running at the same time (SpecConc)
Runs == {1, 2, 3}
SeqRuns == {1}
ConcRuns == {2, 3}
\* the invocations explored for process r
RunLimit(r) == IF r \in SeqRuns THEN MaxRuns ELSE MaxConcRuns

VARIABLES
    etl,            \* the program under execution: "PricesETL" or "ProductsETL"
    now,            \* last value the clock (CURRENT_TIMESTAMP / datetime.now) returned
    stg_prices,     \* table ETL.ETL_SHI.stg_prices
    prices,         \* table ETL.ETL_SHI.prices
    stg_products,   \* table ETL.ETL_SHI.stg_products
    products_v2,    \* table ETL.ETL_SHI.products_v2
    etl_audit_log,  \* table ETL.ETL_SHI.etl_audit_log
    pc,             \* pc[r]: position of run r inside load_*_incremental
    df,             \* df[r]: the rows run r prepared (df / records)
    start_time,     \* start_time[r]
    err,            \* err[r]: the exception e caught by the except clause
    audit_calls,    \* history: audit_calls[r] = arguments of the log_audit invocations of run r
    pre,            \* history: pre[r] = target table and audit log length when run r was invoked
    input,          \* history: input[r] = parsed file content of run r
    rerun,          \* history: rerun[r] = run r repeats the input of the run that returned before it
    raised,         \* history: raised[r] = the exception run r let out to its caller
    nruns           \* history: number of invocations so far

vars == <<etl, now, stg_prices, prices, stg_products, products_v2,
          etl_audit_log, pc, df, start_time, err, audit_calls, pre, input,
          rerun, raised, nruns>>

\* ------------------------------------------------------------------------
\* Generic helpers on tables (a table is a sequence of rows: a multiset
\* kept in insertion order)
\* ------------------------------------------------------------------------
Idx(s) == 1..Len(s)

MapSeq(s, F(_)) == [i \in Idx(s) |-> F(s[i])]

\* all sequences over S of length at most n
SeqsUpTo(S, n) == UNION {[1..k -> S] : k \in 0..n}

\* the pairs <<j, i>> of the cross product src x tgt, in row order
Cross(src, tgt) ==
    [k \in 1..(Len(src) * Len(tgt)) |->
        <<((k - 1) \div Len(tgt)) + 1, ((k - 1) % Len(tgt)) + 1>>]

\* ------------------------------------------------------------------------
\* PricesETL: the SQL of load_prices_incremental
\* ------------------------------------------------------------------------
\* the ON clause without "AND tgt.is_current = TRUE": closed versions match too
PricesOn_any_version(tgt, src) ==
    /\ tgt.manufacturer = src.manufacturer
    /\ tgt.sku = src.sku
    /\ tgt.distributor = src.distributor

\* ON clause of the MERGE
PricesOn(tgt, src) ==
    /\ tgt.manufacturer = src.manufacturer
    /\ tgt.sku = src.sku
    /\ tgt.distributor = src.distributor
    /\ tgt.is_current = TRUE

\* WHEN MATCHED AND (...) condition of the MERGE
PricesChanged(tgt, src) ==
    \/ tgt.price # src.price
    \/ tgt.quantity # src.quantity

\* the staged rows that make the MERGE update target row i
PricesUpdaters(tgt_tab, src_tab, i) ==
    {j \in Idx(src_tab) : /\ PricesOn(tgt_tab[i], src_tab[j])
                          /\ PricesChanged(tgt_tab[i], src_tab[j])}

\* Snowflake session parameter, never changed by the code: a MERGE that
\* updates one target row from several source rows raises
ERROR_ON_NONDETERMINISTIC_MERGE == TRUE

\* a target row is updated by more than one staged row
PricesNondeterministicMerge(tgt_tab, src_tab) ==
    \E i \in Idx(tgt_tab) : Cardinality(PricesUpdaters(tgt_tab, src_tab, i)) > 1

\* WHEN MATCHED ... THEN UPDATE SET valid_to = CURRENT_TIMESTAMP(), is_current = FALSE
PricesClose(tgt_tab, src_tab, T) ==
    [i \in Idx(tgt_tab) |->
        IF PricesUpdaters(tgt_tab, src_tab, i) # {}
        THEN [tgt_tab[i] EXCEPT !.valid_to = T, !.is_current = FALSE]
        ELSE tgt_tab[i]]

\* WHEN NOT MATCHED THEN INSERT (..., valid_from, is_current)
\*                       VALUES (..., CURRENT_TIMESTAMP(), TRUE);
\* valid_to takes the column default NULL
PricesNotMatched(tgt_tab, src_tab, T) ==
    MapSeq(SelectSeq(src_tab,
                     LAMBDA s : \A i \in Idx(tgt_tab) : ~PricesOn(tgt_tab[i], s)),
           LAMBDA s : [manufacturer |-> s.manufacturer, sku |-> s.sku,
                       price |-> s.price, quantity |-> s.quantity,
                       distributor |-> s.distributor, updated_on |-> s.updated_on,
                       valid_from |-> T, valid_to |-> NULL, is_current |-> TRUE])

\* the MERGE INTO prices statement, executed at CURRENT_TIMESTAMP() = T
PricesMerge(tgt_tab, src_tab, T) ==
    PricesClose(tgt_tab, src_tab, T) \o PricesNotMatched(tgt_tab, src_tab, T)

\* the follow-up INSERT INTO prices SELECT ... FROM stg_prices src JOIN prices tgt
\* ON key AND tgt.valid_to = CURRENT_TIMESTAMP(), executed at CURRENT_TIMESTAMP() = T:
\* one row per joined pair
PricesJoin(tgt, src, T) ==
    /\ src.manufacturer = tgt.manufacturer
    /\ src.sku = tgt.sku
    /\ src.distributor = tgt.distributor
    /\ tgt.valid_to = T

PricesInsert(tgt_tab, src_tab, T) ==
    tgt_tab \o
    MapSeq(SelectSeq(Cross(src_tab, tgt_tab),
                     LAMBDA p : PricesJoin(tgt_tab[p[2]], src_tab[p[1]], T)),
           LAMBDA p : [manufacturer |-> src_tab[p[1]].manufacturer,
                       sku |-> src_tab[p[1]].sku,
                       price |-> src_tab[p[1]].price,
                       quantity |-> src_tab[p[1]].quantity,
                       distributor |-> src_tab[p[1]].distributor,
                       updated_on |-> src_tab[p[1]].updated_on,
                       valid_from |-> T, valid_to |-> NULL, is_current |-> TRUE])

\* ------------------------------------------------------------------------
\* ProductsETL: the SQL of load_products_incremental
\* ------------------------------------------------------------------------
ProductsOn(tgt, src) ==
    /\ tgt.manufacturer = src.manufacturer
    /\ tgt.sku = src.sku
    /\ tgt.is_current = TRUE

ProductsChanged(tgt, src) ==
    \/ tgt.updated_on < src.updated_on
    \/ tgt.details # src.details
    \/ tgt.category # src.category
    \/ tgt.title # src.title

ProductsUpdaters(tgt_tab, src_tab, i) ==
    {j \in Idx(src_tab) : /\ ProductsOn(tgt_tab[i], src_tab[j])
                          /\ ProductsChanged(tgt_tab[i], src_tab[j])}

ProductsNondeterministicMerge(tgt_tab, src_tab) ==
    \E i \in Idx(tgt_tab) : Cardinality(ProductsUpdaters(tgt_tab, src_tab, i)) > 1

ProductsClose(tgt_tab, src_tab, T) ==
    [i \in Idx(tgt_tab) |->
        IF ProductsUpdaters(tgt_tab, src_tab, i) # {}
        THEN [tgt_tab[i] EXCEPT !.valid_to = T, !.is_current = FALSE]
        ELSE tgt_tab[i]]

\* SELECT MAX(updated_on) FROM stg_products WHERE manufacturer = ... AND sku = ...
MaxUpdatedOn(src_tab, manufacturer, sku) ==
    LET same == {j \in Idx(src_tab) : /\ src_tab[j].manufacturer = manufacturer
                                      /\ src_tab[j].sku = sku}
    IN  CHOOSE m \in {src_tab[j].updated_on : j \in same} :
            \A j \in same : src_tab[j].updated_on <= m

\* the NOT MATCHED branch with is_current = TRUE in place of the CASE expression
ProductsNotMatched_all_current(tgt_tab, src_tab, T) ==
    MapSeq(SelectSeq(src_tab,
                     LAMBDA s : \A i \in Idx(tgt_tab) : ~ProductsOn(tgt_tab[i], s)),
           LAMBDA s : [manufacturer |-> s.manufacturer, sku |-> s.sku,
                       category |-> s.category, title |-> s.title,
                       details |-> s.details, updated_on |-> s.updated_on,
                       valid_from |-> T, valid_to |-> NULL, is_current |-> TRUE])

\* WHEN NOT MATCHED THEN INSERT (..., valid_from, is_current)
\*   VALUES (..., CURRENT_TIMESTAMP(), CASE WHEN src.updated_on = (SELECT MAX ...) ...)
ProductsNotMatched(tgt_tab, src_tab, T) ==
    MapSeq(SelectSeq(src_tab,
                     LAMBDA s : \A i \in Idx(tgt_tab) : ~ProductsOn(tgt_tab[i], s)),
           LAMBDA s : [manufacturer |-> s.manufacturer, sku |-> s.sku,
                       category |-> s.category, title |-> s.title,
                       details |-> s.details, updated_on |-> s.updated_on,
                       valid_from |-> T, valid_to |-> NULL,
                       is_current |->
                           (s.updated_on = MaxUpdatedOn(src_tab, s.manufacturer, s.sku))])

ProductsMerge(tgt_tab, src_tab, T) ==
    ProductsClose(tgt_tab, src_tab, T) \o ProductsNotMatched(tgt_tab, src_tab, T)

ProductsJoin(tgt, src, T) ==
    /\ src.manufacturer = tgt.manufacturer
    /\ src.sku = tgt.sku
    /\ tgt.valid_to = T

ProductsInsert(tgt_tab, src_tab, T) ==
    tgt_tab \o
    MapSeq(SelectSeq(Cross(src_tab, tgt_tab),
                     LAMBDA p : ProductsJoin(tgt_tab[p[2]], src_tab[p[1]], T)),
           LAMBDA p : [manufacturer |-> src_tab[p[1]].manufacturer,
                       sku |-> src_tab[p[1]].sku,
                       category |-> src_tab[p[1]].category,
                       title |-> src_tab[p[1]].title,
                       details |-> src_tab[p[1]].details,
                       updated_on |-> src_tab[p[1]].updated_on,
                       valid_from |-> T, valid_to |-> NULL, is_current |-> TRUE])

\* ------------------------------------------------------------------------
\* Input files
\* ------------------------------------------------------------------------
\* rows of a prices CSV file (columns manufacturer, sku, price, quantity)
CsvRows ==
    {[manufacturer |-> "Acme", sku |-> "X1", price |-> 9,  quantity |-> 5],
     [manufacturer |-> "Acme", sku |-> "X1", price |-> 12, quantity |-> 5],
     [manufacturer |-> "Acme", sku |-> "X1", price |-> 9,  quantity |-> 7],
     [manufacturer |-> "Acme", sku |-> "X2", price |-> 9,  quantity |-> 5]}

CsvFiles == SeqsUpTo(CsvRows, MaxBatch)

\* the distributor argument of load_prices_incremental
Distributors == {"D1"}

\* objects of a products JSON file; the last one lacks the Title field
JsonObjects ==
    {[Manufacturer |-> "Acme", SKU |-> "X1", Category |-> "c1", Title |-> "t1",
      Details |-> "d1", UpdatedOnUTC |-> "2024-01-01T00:00:00Z"],
     [Manufacturer |-> "Acme", SKU |-> "X1", Category |-> "c1", Title |-> "t2",
      Details |-> "d1", UpdatedOnUTC |-> "2024-01-01T00:00:00Z"],
     [Manufacturer |-> "Acme", SKU |-> "X1", Category |-> "c1", Title |-> "t1",
      Details |-> "d1", UpdatedOnUTC |-> "2024-01-02T00:00:00Z"],
     [Manufacturer |-> "Acme", SKU |-> "X1", Category |-> "c2", Title |-> "t1",
      Details |-> "d2", UpdatedOnUTC |-> "2024-01-02T00:00:00Z"],
     [Manufacturer |-> "Acme", SKU |-> "X1", Category |-> "c1",
      Details |-> "d1", UpdatedOnUTC |-> "2024-01-02T00:00:00Z"]}

JsonFiles == SeqsUpTo(JsonObjects, MaxBatch)

\* datetime.fromisoformat(s.replace('Z', '+00:00')), as days since 2023-12-31
fromisoformat(s) ==
    CASE s = "2024-01-01T00:00:00Z" -> 1
      [] s = "2024-01-02T00:00:00Z" -> 2

\* json.dumps of the Details object
json_dumps(d) ==
    CASE d = "d1" -> "{\"k\": 1}"
      [] d = "d2" -> "{\"k\": 2}"

RequiredFields == {"Manufacturer", "SKU", "Category", "Title", "Details", "UpdatedOnUTC"}

\* the list comprehension building `records`
records_of(products) ==
    MapSeq(SelectSeq(products, LAMBDA p : RequiredFields \subseteq DOMAIN p),
           LAMBDA p : [manufacturer |-> p.Manufacturer, sku |-> p.SKU,
                       category |-> p.Category, title |-> p.Title,
                       details |-> json_dumps(p.Details),
                       updated_on |-> fromisoformat(p.UpdatedOnUTC)])

\* df after df["distributor"] = distributor; df["updated_on"] = datetime.now()
df_of(csv, distributor, t) ==
    MapSeq(csv, LAMBDA c : [manufacturer |-> c.manufacturer, sku |-> c.sku,
                            price |-> c.price, quantity |-> c.quantity,
                            distributor |-> distributor, updated_on |-> t])

\* ------------------------------------------------------------------------
\* Initial state: the tables setup_tables() creates, no run invoked yet
\* ------------------------------------------------------------------------
Init ==
    /\ etl \in {"PricesETL", "ProductsETL"}
    /\ now = 0
    /\ stg_prices = <<>>
    /\ prices = <<>>
    /\ stg_products = <<>>
    /\ products_v2 = <<>>
    /\ etl_audit_log = <<>>
    /\ pc = [r \in Runs |-> "idle"]
    /\ df = [r \in Runs |-> <<>>]
    /\ start_time = [r \in Runs |-> 0]
    /\ err = [r \in Runs |-> None]
    /\ audit_calls = [r \in Runs |-> <<>>]
    /\ pre = [r \in Runs |-> [target |-> <<>>, audit |-> 0]]
    /\ input = [r \in Runs |-> <<>>]
    /\ rerun = [r \in Runs |-> FALSE]
    /\ raised = [r \in Runs |-> None]
    /\ nruns = 0

\* ------------------------------------------------------------------------
\* The clock
\* ------------------------------------------------------------------------
\* CURRENT_TIMESTAMP() is the start time of the statement that evaluates it.
\* The MERGE of a run starts after every statement executed before it.
MergeTimes(t) == {t + 1}
\* The follow-up INSERT starts in the same clock instant as the MERGE before
\* it, or in a later one.
InsertTimes(t) == {t, t + 1}

\* ------------------------------------------------------------------------
\* log_audit
\* ------------------------------------------------------------------------
\* the dictionary log_audit builds
audit_record(table_name, operation, records_processed, st, status, error_message) ==
    [table_name |-> table_name, operation |-> operation,
     records_processed |-> records_processed, start_time |-> st,
     end_time |-> now, status |-> status, error_message |-> error_message]

\* log_audit writing with mode('overwrite'): the record replaces the table
log_audit_overwrite(r, table_name, operation, records_processed, st, status, error_message, write_ok) ==
    LET rec == audit_record(table_name, operation, records_processed, st,
                            status, error_message)
    IN  /\ audit_calls' = [audit_calls EXCEPT ![r] = Append(audit_calls[r], rec)]
        /\ etl_audit_log' = IF write_ok THEN <<rec>> ELSE etl_audit_log

\* try: ... audit_df.write.mode('append').saveAsTable(etl_audit_log)
\* write_ok = FALSE: the write raises
log_audit(r, table_name, operation, records_processed, st, status, error_message, write_ok) ==
    LET rec == audit_record(table_name, operation, records_processed, st,
                            status, error_message)
    IN  /\ audit_calls' = [audit_calls EXCEPT ![r] = Append(audit_calls[r], rec)]
        /\ etl_audit_log' = IF write_ok THEN Append(etl_audit_log, rec)
                                        ELSE etl_audit_log

\* log_audit without its try/except: a failing audit write raises to the caller
log_audit_propagates_unguarded(write_ok) == ~write_ok

\* except Exception as e: logger.error(...) -- does an exception raised by the
\* audit write leave log_audit?
log_audit_propagates(write_ok) == FALSE

\* ------------------------------------------------------------------------
\* Steps shared by the two loaders (same code in both files)
\* ------------------------------------------------------------------------
Ready(r) == pc[r] \in {"idle", "returned", "raised"}

\* bookkeeping of an invocation
Invoke(r, target, content, e) ==
    /\ nruns < RunLimit(r)
    /\ nruns' = nruns + 1
    /\ audit_calls' = [audit_calls EXCEPT ![r] = <<>>]
    /\ pre' = [pre EXCEPT ![r] = [target |-> target, audit |-> Len(etl_audit_log)]]
    /\ input' = [input EXCEPT ![r] = content]
    /\ rerun' = [rerun EXCEPT ![r] = (pc[r] = "returned" /\ content = input[r])]
    /\ raised' = [raised EXCEPT ![r] = None]
    /\ err' = [err EXCEPT ![r] = e]
    /\ start_time' = [start_time EXCEPT ![r] = now]

\* a statement of the try block raises e
Raise(r, e) ==
    /\ pc' = [pc EXCEPT ![r] = "except"]
    /\ err' = [err EXCEPT ![r] = e]

\* self.log_audit(table, 'MERGE', n, start_time) at the end of the try block
LogSuccess(r, table_name) ==
    \E write_ok \in BOOLEAN :
        /\ log_audit(r, table_name, "MERGE", Len(df[r]), start_time[r],
                     "SUCCESS", None, write_ok)
        /\ IF log_audit_propagates(write_ok)
           THEN Raise(r, "AuditWriteError")
           ELSE /\ pc' = [pc EXCEPT ![r] = "returned"]
                /\ err' = err

\* the except clause without its final `raise`: the error is logged and swallowed
Except_no_reraise(r, table_name) ==
    \E write_ok \in BOOLEAN :
        /\ log_audit(r, table_name, "MERGE", 0, start_time[r],
                     "ERROR", err[r], write_ok)
        /\ pc' = [pc EXCEPT ![r] = "returned"]
        /\ raised' = raised

\* except Exception as e: self.log_audit(table, 'MERGE', 0, start_time,
\*     status='ERROR', error_message=str(e)); logger.error(...); raise
Except(r, table_name) ==
    \E write_ok \in BOOLEAN :
        /\ log_audit(r, table_name, "MERGE", 0, start_time[r],
                     "ERROR", err[r], write_ok)
        /\ pc' = [pc EXCEPT ![r] = "raised"]
        /\ raised' = [raised EXCEPT ![r] =
                        IF log_audit_propagates(write_ok)
                        THEN "AuditWriteError" ELSE err[r]]

\* ------------------------------------------------------------------------
\* PricesETL.load_prices_incremental, one action per statement
\* ------------------------------------------------------------------------
\* start_time = datetime.now(); df = pd.read_csv(...); df["distributor"] = ...;
\* df["updated_on"] = datetime.now(); if df.shape[0] > 0: ... else: warning
Prices_read_csv(r) ==
    /\ etl = "PricesETL"
    /\ Ready(r)
    /\ \E csv \in CsvFiles, distributor \in Distributors :
        /\ Invoke(r, prices, csv, None)
        /\ df' = [df EXCEPT ![r] = df_of(csv, distributor, now)]
        /\ pc' = [pc EXCEPT ![r] = IF Len(csv) > 0 THEN "stage" ELSE "returned"]
    /\ UNCHANGED <<etl, now, stg_prices, prices, stg_products, products_v2,
                   etl_audit_log>>

\* pd.read_csv raises (missing or unreadable file)
Prices_read_csv_fails(r) ==
    /\ etl = "PricesETL"
    /\ Ready(r)
    /\ Invoke(r, prices, <<>>, "ReadError")
    /\ df' = [df EXCEPT ![r] = <<>>]
    /\ pc' = [pc EXCEPT ![r] = "except"]
    /\ UNCHANGED <<etl, now, stg_prices, prices, stg_products, products_v2,
                   etl_audit_log>>

\* the staging write with its failure swallowed: the run goes on to the MERGE
Prices_stage_ignores_failure(r) ==
    /\ etl = "PricesETL"
    /\ pc[r] = "stage"
    /\ \/ /\ stg_prices' = df[r]
          /\ err' = err
       \/ /\ err' = [err EXCEPT ![r] = "StagingWriteError"]
          /\ stg_prices' = stg_prices
    /\ pc' = [pc EXCEPT ![r] = "merge"]
    /\ UNCHANGED <<etl, now, prices, stg_products, products_v2, etl_audit_log,
                   df, start_time, audit_calls, pre, input, rerun, raised,
                   nruns>>

\* staging_df.write.mode('overwrite').saveAsTable('ETL.ETL_SHI.stg_prices')
Prices_stage(r) ==
    /\ etl = "PricesETL"
    /\ pc[r] = "stage"
    /\ \/ /\ stg_prices' = df[r]
          /\ pc' = [pc EXCEPT ![r] = "merge"]
          /\ err' = err
       \/ /\ Raise(r, "StagingWriteError")
          /\ stg_prices' = stg_prices
    /\ UNCHANGED <<etl, now, prices, stg_products, products_v2, etl_audit_log,
                   df, start_time, audit_calls, pre, input, rerun, raised,
                   nruns>>

\* self.session.sql("MERGE INTO ETL.ETL_SHI.prices ...").collect()
Prices_merge(r) ==
    /\ etl = "PricesETL"
    /\ pc[r] = "merge"
    /\ \/ /\ ~(ERROR_ON_NONDETERMINISTIC_MERGE
                /\ PricesNondeterministicMerge(prices, stg_prices))
          /\ \E T \in MergeTimes(now) :
                /\ now' = T
                /\ prices' = PricesMerge(prices, stg_prices, T)
          /\ pc' = [pc EXCEPT ![r] = "insert"]
          /\ err' = err
       \/ /\ Raise(r, "MergeError")
          /\ UNCHANGED <<now, prices>>
    /\ UNCHANGED <<etl, stg_prices, stg_products, products_v2, etl_audit_log,
                   df, start_time, audit_calls, pre, input, rerun, raised,
                   nruns>>

\* the follow-up INSERT with its failure swallowed: the run goes on to the
\* SUCCESS audit call
Prices_insert_ignores_failure(r) ==
    /\ etl = "PricesETL"
    /\ pc[r] = "insert"
    /\ \/ /\ \E T \in InsertTimes(now) :
                /\ now' = T
                /\ prices' = PricesInsert(prices, stg_prices, T)
          /\ err' = err
       \/ /\ err' = [err EXCEPT ![r] = "InsertError"]
          /\ UNCHANGED <<now, prices>>
    /\ pc' = [pc EXCEPT ![r] = "audit"]
    /\ UNCHANGED <<etl, stg_prices, stg_products, products_v2, etl_audit_log,
                   df, start_time, audit_calls, pre, input, rerun, raised,
                   nruns>>

\* self.session.sql("INSERT INTO ETL.ETL_SHI.prices SELECT ...").collect()
Prices_insert(r) ==
    /\ etl = "PricesETL"
    /\ pc[r] = "insert"
    /\ \/ /\ \E T \in InsertTimes(now) :
                /\ now' = T
                /\ prices' = PricesInsert(prices, stg_prices, T)
          /\ pc' = [pc EXCEPT ![r] = "audit"]
          /\ err' = err
       \/ /\ Raise(r, "InsertError")
          /\ UNCHANGED <<now, prices>>
    /\ UNCHANGED <<etl, stg_prices, stg_products, products_v2, etl_audit_log,
                   df, start_time, audit_calls, pre, input, rerun, raised,
                   nruns>>

\* self.log_audit('prices', 'MERGE', df.shape[0], start_time)
Prices_log_success(r) ==
    /\ etl = "PricesETL"
    /\ pc[r] = "audit"
    /\ LogSuccess(r, "prices")
    /\ UNCHANGED <<etl, now, stg_prices, prices, stg_products, products_v2,
                   df, start_time, pre, input, rerun, raised, nruns>>

\* except Exception as e: log_audit(... status='ERROR' ...); raise
Prices_except(r) ==
    /\ etl = "PricesETL"
    /\ pc[r] = "except"
    /\ Except(r, "prices")
    /\ UNCHANGED <<etl, now, stg_prices, prices, stg_products, products_v2,
                   df, start_time, err, pre, input, rerun, nruns>>

\* ------------------------------------------------------------------------
\* ProductsETL.load_products_incremental, one action per statement
\* the load with the "if records" test dropped: an empty record list is staged
Products_load_json_unguarded(r) ==
    /\ etl = "ProductsETL"
    /\ Ready(r)
    /\ \E products \in JsonFiles :
        /\ Invoke(r, products_v2, products, None)
        /\ df' = [df EXCEPT ![r] = records_of(products)]
        /\ pc' = [pc EXCEPT ![r] = "stage"]
    /\ UNCHANGED <<etl, now, stg_prices, prices, stg_products, products_v2,
                   etl_audit_log>>

\* ------------------------------------------------------------------------
\* start_time = datetime.now(); products = json.load(f); records = [...];
\* if records: ... else: warning
Products_load_json(r) ==
    /\ etl = "ProductsETL"
    /\ Ready(r)
    /\ \E products \in JsonFiles :
        /\ Invoke(r, products_v2, products, None)
        /\ df' = [df EXCEPT ![r] = records_of(products)]
        /\ pc' = [pc EXCEPT ![r] =
                    IF Len(records_of(products)) > 0 THEN "stage" ELSE "returned"]
    /\ UNCHANGED <<etl, now, stg_prices, prices, stg_products, products_v2,
                   etl_audit_log>>

\* open / json.load raises
Products_load_json_fails(r) ==
    /\ etl = "ProductsETL"
    /\ Ready(r)
    /\ Invoke(r, products_v2, <<>>, "ReadError")
    /\ df' = [df EXCEPT ![r] = <<>>]
    /\ pc' = [pc EXCEPT ![r] = "except"]
    /\ UNCHANGED <<etl, now, stg_prices, prices, stg_products, products_v2,
                   etl_audit_log>>

\* staging_df.write.mode('overwrite').saveAsTable('ETL.ETL_SHI.stg_products')
Products_stage(r) ==
    /\ etl = "ProductsETL"
    /\ pc[r] = "stage"
    /\ \/ /\ stg_products' = df[r]
          /\ pc' = [pc EXCEPT ![r] = "merge"]
          /\ err' = err
       \/ /\ Raise(r, "StagingWriteError")
          /\ stg_products' = stg_products
    /\ UNCHANGED <<etl, now, stg_prices, prices, products_v2, etl_audit_log,
                   df, start_time, audit_calls, pre, input, rerun, raised,
                   nruns>>

\* self.session.sql("MERGE INTO ETL.ETL_SHI.products_v2 ...").collect()
Products_merge(r) ==
    /\ etl = "ProductsETL"
    /\ pc[r] = "merge"
    /\ \/ /\ ~(ERROR_ON_NONDETERMINISTIC_MERGE
                /\ ProductsNondeterministicMerge(products_v2, stg_products))
          /\ \E T \in MergeTimes(now) :
                /\ now' = T
                /\ products_v2' = ProductsMerge(products_v2, stg_products, T)
          /\ pc' = [pc EXCEPT ![r] = "insert"]
          /\ err' = err
       \/ /\ Raise(r, "MergeError")
          /\ UNCHANGED <<now, products_v2>>
    /\ UNCHANGED <<etl, stg_prices, prices, stg_products, etl_audit_log,
                   df, start_time, audit_calls, pre, input, rerun, raised,
                   nruns>>

\* self.session.sql("INSERT INTO ETL.ETL_SHI.products_v2 SELECT ...").collect()
Products_insert(r) ==
    /\ etl = "ProductsETL"
    /\ pc[r] = "insert"
    /\ \/ /\ \E T \in InsertTimes(now) :
                /\ now' = T
                /\ products_v2' = ProductsInsert(products_v2, stg_products, T)
          /\ pc' = [pc EXCEPT ![r] = "audit"]
          /\ err' = err
       \/ /\ Raise(r, "InsertError")
          /\ UNCHANGED <<now, products_v2>>
    /\ UNCHANGED <<etl, stg_prices, prices, stg_products, etl_audit_log,
                   df, start_time, audit_calls, pre, input, rerun, raised,
                   nruns>>

\* self.log_audit('products_v2', 'MERGE', len(records), start_time)
Products_log_success(r) ==
    /\ etl = "ProductsETL"
    /\ pc[r] = "audit"
    /\ LogSuccess(r, "products_v2")
    /\ UNCHANGED <<etl, now, stg_prices, prices, stg_products, products_v2,
                   df, start_time, pre, input, rerun, raised, nruns>>

\* except Exception as e: log_audit(... status='ERROR' ...); raise
Products_except(r) ==
    /\ etl = "ProductsETL"
    /\ pc[r] = "except"
    /\ Except(r, "products_v2")
    /\ UNCHANGED <<etl, now, stg_prices, prices, stg_products, products_v2,
                   df, start_time, err, pre, input, rerun, nruns>>

\* ------------------------------------------------------------------------
\* Specification: the runs of main(), one after another
\* ------------------------------------------------------------------------
Step(r) ==
    \/ Prices_read_csv(r)
    \/ Prices_read_csv_fails(r)
    \/ Prices_stage(r)
    \/ Prices_merge(r)
    \/ Prices_insert(r)
    \/ Prices_log_success(r)
    \/ Prices_except(r)
    \/ Products_load_json(r)
    \/ Products_load_json_fails(r)
    \/ Products_stage(r)
    \/ Products_merge(r)
    \/ Products_insert(r)
    \/ Products_log_success(r)
    \/ Products_except(r)

Next == \E r \in SeqRuns : Step(r)

Spec == Init /\ [][Next]_vars

\* Two processes (two scheduler invocations of main) execute the program
\* against the same Snowflake tables: the code takes no lock and each
\* statement is its own autocommit transaction, so their statements
\* interleave.
NextConc == \E r \in ConcRuns : Step(r)

SpecConc == Init /\ [][NextConc]_vars

\* ========================================================================
\* Properties
\* ========================================================================
\* natural keys: PRIMARY KEY of the target tables without valid_from
PricesKey(x) == <<x.manufacturer, x.sku, x.distributor>>
ProductsKey(x) == <<x.manufacturer, x.sku>>

\* the target table, key and change predicate of the program under execution
Target == IF etl = "PricesETL" THEN prices ELSE products_v2
Key(x) == IF etl = "PricesETL" THEN PricesKey(x) ELSE ProductsKey(x)
Changed(t, s) == IF etl = "PricesETL" THEN PricesChanged(t, s) ELSE ProductsChanged(t, s)
SamePayload(t, s) ==
    IF etl = "PricesETL"
    THEN t.price = s.price /\ t.quantity = s.quantity
    ELSE t.category = s.category /\ t.title = s.title
         /\ t.details = s.details /\ t.updated_on = s.updated_on

KeysOf(tab) == {Key(tab[i]) : i \in Idx(tab)}
VersionsOf(tab, k) == {i \in Idx(tab) : Key(tab[i]) = k}
CurrentOf(tab, k) == {i \in VersionsOf(tab, k) : tab[i].is_current}
StagedOf(tab, k) == {j \in Idx(tab) : Key(tab[j]) = k}

Finished(r) == pc[r] \in {"returned", "raised"}

\* the log_audit invocations of the invocation run r executes
CallsOf(r) == audit_calls[r]

\* keys the MERGE of run r classifies CHANGED: a current version existed when
\* the run was invoked and a staged row differs from it
ChangedKeys(r) ==
    {k \in KeysOf(df[r]) :
        \E i \in CurrentOf(pre[r].target, k), j \in StagedOf(df[r], k) :
            Changed(pre[r].target[i], df[r][j])}

\* ------------------------------------------------------------------------
\* C1 (I1): in every reachable state every natural key has at most one
\* version with is_current = TRUE, in prices and in products_v2.
I1(tab) == \A k \in KeysOf(tab) : Cardinality(CurrentOf(tab, k)) <= 1

Cex_C1_AtMostOneCurrent == I1(Target)

\* ------------------------------------------------------------------------
\* C2 (I3): for every natural key the [valid_from, valid_to) intervals of its
\* versions are non-overlapping (a version that starts no later than another
\* one is closed no later than the other starts) and contiguous (the valid_to
\* of a closed version that has a successor is the valid_from of a version).
NonOverlapping(tab) ==
    \A i, j \in Idx(tab) :
        (i # j /\ Key(tab[i]) = Key(tab[j]) /\ tab[i].valid_from <= tab[j].valid_from)
            => (tab[i].valid_to # NULL /\ tab[i].valid_to <= tab[j].valid_from)

Contiguous(tab) ==
    \A i \in Idx(tab) :
        (/\ tab[i].valid_to # NULL
         /\ \E j \in VersionsOf(tab, Key(tab[i])) : tab[j].valid_from > tab[i].valid_from)
            => \E j \in VersionsOf(tab, Key(tab[i])) : tab[j].valid_from = tab[i].valid_to

Cex_C2_IntervalsContiguous == NonOverlapping(Target) /\ Contiguous(Target)

\* ------------------------------------------------------------------------
\* C3 (I2): in every reachable state a version has valid_to = NULL if and
\* only if it has is_current = TRUE.
I2(tab) == \A i \in Idx(tab) : (tab[i].valid_to = NULL) <=> tab[i].is_current

Cex_C3_NullIffCurrent == I2(Target)

\* ------------------------------------------------------------------------
\* C4 (round trip): a run that returns, was invoked on a target holding
\* exactly one version of key K (the current one a NEW insert left), and
\* staged exactly one row of K with a changed payload, leaves exactly two
\* versions of K: the old one closed at T and a current one with the staged
\* payload, valid_from = T and valid_to = NULL.
RoundTripCase(r, k) ==
    /\ pc[r] = "returned"
    /\ Cardinality(VersionsOf(pre[r].target, k)) = 1
    /\ Cardinality(CurrentOf(pre[r].target, k)) = 1
    /\ Cardinality(StagedOf(df[r], k)) = 1
    /\ k \in ChangedKeys(r)

RoundTripResult(r, k) ==
    /\ Cardinality(VersionsOf(Target, k)) = 2
    /\ \E i, n \in VersionsOf(Target, k), j \in StagedOf(df[r], k) :
        /\ i \in VersionsOf(pre[r].target, k)
        /\ ~Target[i].is_current
        /\ Target[i].valid_to # NULL
        /\ Target[n].is_current
        /\ Target[n].valid_to = NULL
        /\ Target[n].valid_from = Target[i].valid_to
        /\ SamePayload(Target[n], df[r][j])

Cex_C4_RoundTrip ==
    \A r \in Runs : \A k \in KeysOf(df[r]) :
        RoundTripCase(r, k) => RoundTripResult(r, k)

\* ------------------------------------------------------------------------
\* C5: for every key classified CHANGED by a run that returns (here: a key
\* the batch holds one row of), the version that was current is closed at T,
\* and the key has exactly one current version, which carries the staged
\* payload, has valid_from = T and valid_to = NULL.
ClosedAndReplaced(r, k) ==
    /\ Cardinality(CurrentOf(Target, k)) = 1
    /\ \A i \in CurrentOf(pre[r].target, k) :
        /\ ~Target[i].is_current
        /\ \E n \in CurrentOf(Target, k), j \in StagedOf(df[r], k) :
            /\ Target[n].valid_from = Target[i].valid_to
            /\ Target[n].valid_to = NULL
            /\ SamePayload(Target[n], df[r][j])

Cex_C5_ChangedKeyReplaced ==
    \A r \in Runs :
        pc[r] = "returned" =>
            \A k \in ChangedKeys(r) :
                Cardinality(StagedOf(df[r], k)) = 1 => ClosedAndReplaced(r, k)

\* ------------------------------------------------------------------------
\* C6 (atomic application): in the state between the MERGE and the follow-up
\* INSERT of a run, every key that had a current version when the run was
\* invoked still has a current version.
Cex_C6_NoKeyWithoutCurrentMidRun ==
    \A r \in Runs :
        pc[r] = "insert" =>
            \A k \in KeysOf(pre[r].target) :
                CurrentOf(pre[r].target, k) # {} => CurrentOf(Target, k) # {}

\* ------------------------------------------------------------------------
\* C7 (idempotence): a run that repeats the input of the run that returned
\* just before it (here: an input with one row per key, found on a target
\* with at most one current version per key), and returns, leaves the target
\* table as it found it.
UniqueKeys(tab) == \A i, j \in Idx(tab) : Key(tab[i]) = Key(tab[j]) => i = j

Cex_C7_RerunChangesNothing ==
    \A r \in Runs :
        (rerun[r] /\ pc[r] = "returned" /\ UniqueKeys(df[r]) /\ I1(pre[r].target))
            => Target = pre[r].target

\* ------------------------------------------------------------------------
\* C8 (I4): every finished run, whether it returned or raised and whatever
\* the size of its batch, has appended exactly one entry to etl_audit_log,
\* with status SUCCESS if it returned (records_processed = 0 for an empty
\* batch) and ERROR if it raised.
Cex_C8_OneAuditEntryPerRun ==
    \A r \in Runs :
        Finished(r) =>
            /\ Len(etl_audit_log) = pre[r].audit + 1
            /\ etl_audit_log[Len(etl_audit_log)].status =
                    (IF pc[r] = "returned" THEN "SUCCESS" ELSE "ERROR")
            /\ etl_audit_log[Len(etl_audit_log)].records_processed =
                    (IF pc[r] = "returned" THEN Len(df[r]) ELSE 0)

\* ------------------------------------------------------------------------
\* C9: when the staging write, the MERGE or the follow-up INSERT of a run
\* raises, the run never returns normally; once it has left the except
\* clause it has invoked log_audit exactly once, with status ERROR,
\* records_processed 0 and the text of the caught error, and the error its
\* caller receives is the caught one.
PipelineErrors == {"StagingWriteError", "MergeError", "InsertError"}

Thm_C9_ErrorAuditedThenReraised ==
    \A r \in Runs :
        err[r] \in PipelineErrors =>
            /\ pc[r] \in {"except", "raised"}
            /\ pc[r] = "raised" =>
                /\ raised[r] = err[r]
                /\ Len(CallsOf(r)) = 1
                /\ CallsOf(r)[1].status = "ERROR"
                /\ CallsOf(r)[1].records_processed = 0
                /\ CallsOf(r)[1].error_message = err[r]

\* the follow-up INSERT raised after the MERGE closed a version; the ERROR
\* entry was written and the error reached the caller
Wit_C9_InsertErrorAudited ==
    \E r \in Runs :
        /\ pc[r] = "raised"
        /\ err[r] = "InsertError"
        /\ raised[r] = "InsertError"
        /\ ChangedKeys(r) # {}
        /\ Len(etl_audit_log) = pre[r].audit + 1
        /\ etl_audit_log[Len(etl_audit_log)].status = "ERROR"
        /\ etl_audit_log[Len(etl_audit_log)].error_message = "InsertError"

\* ------------------------------------------------------------------------
\* C10: a failing audit write changes nothing about the outcome of the run:
\* the log_audit call at the end of the try block is followed by a normal
\* return and the one in the except clause by the re-raise of the caught
\* error, also when the write to etl_audit_log fails; a run that returned
\* never asked for an ERROR entry.
AuditWriteFails == audit_calls' # audit_calls /\ etl_audit_log' = etl_audit_log

Thm_C10_AuditFailureSwallowed ==
    /\ [](\A r \in Runs :
            pc[r] = "returned" =>
                /\ raised[r] = None
                /\ \A n \in Idx(CallsOf(r)) : CallsOf(r)[n].status # "ERROR")
    /\ [][\A r \in Runs :
            /\ (pc[r] = "audit" /\ AuditWriteFails) =>
                    (pc'[r] = "returned" /\ raised'[r] = None /\ err'[r] = None)
            /\ (pc[r] = "except" /\ AuditWriteFails) =>
                    (pc'[r] = "raised" /\ raised'[r] = err[r])]_vars

\* a run merged a non-empty batch, its audit write failed, and it returned
Wit_C10_ReturnedWithoutAuditEntry ==
    \E r \in Runs :
        /\ pc[r] = "returned"
        /\ Len(df[r]) > 0
        /\ Len(CallsOf(r)) = 1
        /\ Len(etl_audit_log) = pre[r].audit


\* ------------------------------------------------------------------------
\* C11 (MergeError rollback): a run whose MERGE or follow-up INSERT raised
\* leaves the target table exactly as it was when the run was invoked.
Cex_C11_FailedMergeLeavesTarget ==
    \A r \in Runs :
        (pc[r] = "raised" /\ err[r] \in {"MergeError", "InsertError"})
            => Target = pre[r].target

\* ------------------------------------------------------------------------
\* C12 (StagingWriteError): a run whose staging overwrite raised goes
\* straight to its except clause: it executes neither the MERGE nor the
\* follow-up INSERT, and the target table is as it was when the run was
\* invoked.
Thm_C12_StagingErrorSkipsMerge ==
    \A r \in Runs :
        err[r] = "StagingWriteError" =>
            /\ pc[r] \in {"except", "raised"}
            /\ Target = pre[r].target

\* the staging overwrite of a batch that would have closed a version raised
Wit_C12_StagingErrorOnChangedKey ==
    \E r \in Runs :
        /\ pc[r] = "raised"
        /\ err[r] = "StagingWriteError"
        /\ ChangedKeys(r) # {}
        /\ Target = pre[r].target


\* ------------------------------------------------------------------------
\* C14 (duplicate-key tie-break): a batch carrying one natural key twice is
\* rejected or reduced to one row per key, so the target never holds two
\* versions of one key with the same valid_from.
NoTwoVersionsSameStart(tab) ==
    \A i, j \in Idx(tab) :
        (Key(tab[i]) = Key(tab[j]) /\ tab[i].valid_from = tab[j].valid_from)
            => i = j
Cex_C14_OneVersionPerKeyAndStart == NoTwoVersionsSameStart(Target)

\* ------------------------------------------------------------------------
\* C18 (staging replacement): when a run has returned, the staging table
\* holds exactly the rows of that run's batch (none for an empty batch) and
\* no row of an earlier run.
Staging == IF etl = "PricesETL" THEN stg_prices ELSE stg_products
Cex_C18_StagingIsThisBatch ==
    \A r \in Runs : pc[r] = "returned" => Staging = df[r]

\* ------------------------------------------------------------------------
\* C19 (empty batch): a run whose batch has no valid row never reaches the
\* staging write, the MERGE, the INSERT or the audit call; it returns
\* without raising and the target table is as it was when the run was
\* invoked.
Thm_C19_EmptyBatchIsNoOp ==
    \A r \in Runs :
        /\ pc[r] \in {"stage", "merge", "insert", "audit"} => Len(df[r]) > 0
        /\ (pc[r] # "idle" /\ err[r] = None /\ Len(df[r]) = 0) =>
                /\ pc[r] = "returned"
                /\ raised[r] = None
                /\ Target = pre[r].target

\* a products file whose only objects lack a required field was run against
\* a target that already holds versions
Wit_C19_AllRowsInvalidReturned ==
    \E r \in Runs :
        /\ etl = "ProductsETL"
        /\ pc[r] = "returned"
        /\ Len(input[r]) > 0
        /\ Len(df[r]) = 0
        /\ Len(Target) > 0
        /\ Target = pre[r].target

\* ------------------------------------------------------------------------
\* C20 (run ordering): a run goes through staging write, MERGE, follow-up
\* INSERT and audit call in this order, each step doing its statement; a
\* failure leads to the except clause; a SUCCESS entry is appended to
\* etl_audit_log only by a run that completed the three statements without
\* raising, with records_processed the number of rows it staged.
MergeOf(tab, stg, T) ==
    IF etl = "PricesETL" THEN PricesMerge(tab, stg, T) ELSE ProductsMerge(tab, stg, T)
InsertOf(tab, stg, T) ==
    IF etl = "PricesETL" THEN PricesInsert(tab, stg, T) ELSE ProductsInsert(tab, stg, T)
OrderedStep(r) ==
    \/ pc'[r] = pc[r]
    \/ Ready(r) /\ pc'[r] = "stage" /\ Len(df'[r]) > 0
    \/ Ready(r) /\ pc'[r] = "returned" /\ Len(df'[r]) = 0
    \/ Ready(r) /\ pc'[r] = "except"
    \/ pc[r] = "stage" /\ pc'[r] = "merge" /\ Staging' = df[r]
    \/ pc[r] = "merge" /\ pc'[r] = "insert" /\ Target' = MergeOf(Target, Staging, now')
    \/ pc[r] = "insert" /\ pc'[r] = "audit" /\ Target' = InsertOf(Target, Staging, now')
    \/ pc[r] = "audit" /\ pc'[r] = "returned"
    \/ pc[r] \in {"stage", "merge", "insert"} /\ pc'[r] = "except" /\ err'[r] # None
    \/ pc[r] = "except" /\ pc'[r] = "raised"
SuccessAppended ==
    /\ Len(etl_audit_log') = Len(etl_audit_log) + 1
    /\ etl_audit_log'[Len(etl_audit_log')].status = "SUCCESS"
Thm_C20_StageMergeInsertAudit ==
    [][/\ \A r \in Runs : OrderedStep(r)
       /\ SuccessAppended =>
            \E r \in Runs :
                /\ pc[r] = "audit"
                /\ pc'[r] = "returned"
                /\ err[r] = None
                /\ etl_audit_log'[Len(etl_audit_log')].records_processed
                       = Len(df[r])]_vars

\* a run of a two-row batch returned with its SUCCESS entry written
Wit_C20_SuccessAfterInsert ==
    \E r \in Runs :
        /\ pc[r] = "returned"
        /\ Len(df[r]) = 2
        /\ Staging = df[r]
        /\ Len(etl_audit_log) = pre[r].audit + 1
        /\ etl_audit_log[Len(etl_audit_log)].status = "SUCCESS"
        /\ etl_audit_log[Len(etl_audit_log)].records_processed = 2


\* ------------------------------------------------------------------------
\* C16 (price classification): after the MERGE and the follow-up INSERT of
\* a run, every staged price row whose key had no current version has a
\* current version carrying it; a staged row whose price or quantity differ
\* from the key's current version has closed that version; a staged row
\* equal to it in price and quantity has left every version of the key as
\* it was.
ByKey(tab, k) == SelectSeq(tab, LAMBDA x : Key(x) = k)
PastInsert(r) ==
    /\ pc[r] \in {"audit", "returned"}
    /\ Len(df[r]) > 0
    /\ I1(pre[r].target)
PriceOrQuantityDiffer(t, s) == t.price # s.price \/ t.quantity # s.quantity
Cex_C16_PriceRowClassified ==
    etl = "PricesETL" =>
        \A r \in Runs : PastInsert(r) =>
            \A j \in Idx(df[r]) :
                LET s == df[r][j]
                    k == Key(s)
                    old == pre[r].target
                IN  /\ CurrentOf(old, k) = {} =>
                        \E i \in CurrentOf(Target, k) :
                            ~PriceOrQuantityDiffer(Target[i], s)
                    /\ \A i \in CurrentOf(old, k) :
                        IF PriceOrQuantityDiffer(old[i], s)
                        THEN ~Target[i].is_current /\ Target[i].valid_to # NULL
                        ELSE ByKey(Target, k) = ByKey(old, k)

\* ------------------------------------------------------------------------
\* C17 (product classification): after the MERGE and the follow-up INSERT
\* of a run, a staged product row whose updated_on is newer than the key's
\* current version's, or whose details, category or title differ from it,
\* has closed that version (so does a row with an older updated_on and a
\* different title); a staged row that is not newer and has the same
\* details, category and title has left every version of the key as it was.
NewerOrContentDiffers(t, s) ==
    \/ t.updated_on < s.updated_on
    \/ t.details # s.details
    \/ t.category # s.category
    \/ t.title # s.title
Cex_C17_ProductRowClassified ==
    etl = "ProductsETL" =>
        \A r \in Runs : PastInsert(r) =>
            \A j \in Idx(df[r]) :
                LET s == df[r][j]
                    old == pre[r].target
                IN  \A i \in CurrentOf(old, Key(s)) :
                        IF NewerOrContentDiffers(old[i], s)
                        THEN ~Target[i].is_current /\ Target[i].valid_to # NULL
                        ELSE ByKey(Target, Key(s)) = ByKey(old, Key(s))


\* ------------------------------------------------------------------------
\* C13 (mutual exclusion): no two runs are at the same time between their
\* staging overwrite and the end of their follow-up INSERT.
InMergePhase(r) == pc[r] \in {"merge", "insert"}
Cex_C13_OneRunInMergePhase ==
    \A r1, r2 \in Runs : (InMergePhase(r1) /\ InMergePhase(r2)) => r1 = r2


\* ------------------------------------------------------------------------
\* C15 (skipped rows): the result of a run on a product file with one
\* object lacking a required field among valid ones (what it returns and
\* the audit record it logs) tells how many objects were skipped: no run
\* with another number of skipped objects returns with the same result.
Skipped(r) == Len(input[r]) - Len(df[r])
ReturnedResult(r) == [raised |-> raised[r], audit |-> CallsOf(r)]
Cex_C15_SkippedRowsObservable ==
    etl = "ProductsETL" =>
        \A r, q \in Runs :
            (/\ pc[r] = "returned" /\ pc[q] = "returned"
             /\ Skipped(r) = 1 /\ Len(df[r]) > 0
             /\ ReturnedResult(q) = ReturnedResult(r))
                => Skipped(q) = Skipped(r)


\* ------------------------------------------------------------------------
\* C21 (audit entries): an invocation calls log_audit at most once, so it
\* appends at most one entry to etl_audit_log and never both a SUCCESS and
\* an ERROR entry; every step leaves the entries already in etl_audit_log
\* as they are and appends at most one.
AuditAppendOnly ==
    /\ Len(etl_audit_log') \in {Len(etl_audit_log), Len(etl_audit_log) + 1}
    /\ SubSeq(etl_audit_log', 1, Len(etl_audit_log)) = etl_audit_log
Thm_C21_OneImmutableAuditEntry ==
    /\ [](\A r \in Runs :
            /\ Len(CallsOf(r)) <= 1
            /\ pc[r] # "idle" =>
                    Len(etl_audit_log) <= pre[r].audit + Len(CallsOf(r)))
    /\ [][AuditAppendOnly]_vars

\* a failed run has appended its ERROR entry behind the SUCCESS entry of
\* the run before it
Wit_C21_ErrorEntryAfterSuccessEntry ==
    \E r \in Runs :
        /\ pc[r] = "raised"
        /\ pre[r].audit = 1
        /\ Len(etl_audit_log) = 2
        /\ etl_audit_log[1].status = "SUCCESS"
        /\ etl_audit_log[2].status = "ERROR"
        /\ CallsOf(r) = <<etl_audit_log[2]>>


\* ------------------------------------------------------------------------
\* C22 (history is never rewritten): every step keeps every row of the
\* target table in place; a version with is_current = FALSE keeps all its
\* fields, and a current version changes in nothing but valid_to and
\* is_current (its closing), so the versions of a key only grow.
Closing(v) == [v EXCEPT !.valid_to = NULL, !.is_current = TRUE]
HistoryKept ==
    /\ Len(Target') >= Len(Target)
    /\ \A i \in Idx(Target) :
        IF Target[i].is_current
        THEN Closing(Target'[i]) = Closing(Target[i])
        ELSE Target'[i] = Target[i]
Thm_C22_HistoryNeverRewritten == [][HistoryKept]_vars

\* a run closed the current version of a key and added a version while an
\* older closed version of the same key stayed as it was
Wit_C22_ClosedVersionSurvivesLaterRun ==
    \E r \in Runs :
        /\ pc[r] = "returned"
        /\ Len(Target) > Len(pre[r].target)
        /\ \E i, j \in Idx(pre[r].target) :
            /\ Key(pre[r].target[i]) = Key(pre[r].target[j])
            /\ ~pre[r].target[i].is_current
            /\ pre[r].target[i].valid_to # NULL
            /\ Target[i] = pre[r].target[i]
            /\ pre[r].target[j].is_current
            /\ ~Target[j].is_current


\* ------------------------------------------------------------------------
\* C23 (interleaved runs): whenever a run executes its MERGE or its
\* follow-up INSERT, the staging table the statement reads holds exactly
\* the rows that run staged.
ExecutesMergeOrInsert(r) ==
    \/ pc[r] = "merge" /\ pc'[r] = "insert"
    \/ pc[r] = "insert" /\ pc'[r] = "audit"
Cex_C23_StatementsReadOwnBatch ==
    [][\A r \in Runs : ExecutesMergeOrInsert(r) => Staging = df[r]]_vars


\* ------------------------------------------------------------------------
\* C24 (several new rows of one product key): when the products MERGE runs
\* on a staging table holding rows of a key that has no current version, it
\* inserts every one of them, with is_current = TRUE exactly for the rows
\* whose updated_on is the greatest among the staged rows of the key.
NewKeyRowsInserted ==
    LET added == SubSeq(products_v2', Len(products_v2) + 1, Len(products_v2'))
    IN  \A k \in KeysOf(stg_products) :
            CurrentOf(products_v2, k) = {} =>
                LET staged == ByKey(stg_products, k)
                    ins == ByKey(added, k)
                IN  /\ Len(ins) = Len(staged)
                    /\ \A n \in Idx(staged) :
                        /\ SamePayload(ins[n], staged[n])
                        /\ ins[n].is_current =
                               (\A m \in Idx(staged) :
                                    staged[m].updated_on <= staged[n].updated_on)
Thm_C24_NewKeyCurrentIsLatest ==
    [][\A r \in Runs :
        (etl = "ProductsETL" /\ pc[r] = "merge" /\ pc'[r] = "insert")
            => NewKeyRowsInserted]_vars

\* the MERGE inserted two rows of a new key, the older one not current
Wit_C24_OlderRowInsertedNotCurrent ==
    \E r \in Runs :
        /\ etl = "ProductsETL"
        /\ pc[r] = "insert"
        /\ pre[r].target = <<>>
        /\ Staging = df[r]
        /\ Len(df[r]) = 2
        /\ Len(products_v2) = 2
        /\ Key(products_v2[1]) = Key(products_v2[2])
        /\ \E i, j \in Idx(products_v2) :
            /\ products_v2[i].updated_on < products_v2[j].updated_on
            /\ ~products_v2[i].is_current
            /\ products_v2[j].is_current

====
